---- MODULE Spec2Model ----
(***************************************************************************)
(* Model of the chat/form synchronisation of the CRM HCP module            *)
(* (Task-1/crm-hcp-module/src/App.js): the store reducer, the ChatWidget   *)
(* send handler with its asynchronous continuation, and the form's manual  *)
(* field edits.                                                            *)
(*                                                                         *)
(* Strings that the code inspects (the chat input, message texts) are      *)
(* sequences of one-character strings; form values are opaque strings.     *)
(***************************************************************************)
EXTENDS Integers, Sequences, FiniteSets, TLC

(* ------------------------------ bounds ------------------------------- *)

MaxTurns == 2

(* --------------------------- the store ------------------------------- *)

Today == "2025-01-01"

Undefined == "undefined"

RecordFields ==
    {"hcpName", "interactionType", "date", "time", "topics", "sentiment", "outcomes"}

Sentiments == {"Positive", "Neutral", "Negative"}

\* A key the backend may name that initialState does not have.
UnknownKeys == {"npiNumber"}

StateKeys == RecordFields \cup {"chatHistory", "status"} \cup UnknownKeys

Greeting == <<"H", "i">>

ConnectionError == <<"E", "r", "r">>

initialState ==
    [k \in StateKeys |->
        CASE k = "hcpName" -> ""
          [] k = "interactionType" -> "Meeting"
          [] k = "date" -> Today
          [] k = "time" -> "10:00"
          [] k = "topics" -> ""
          [] k = "sentiment" -> "Neutral"
          [] k = "outcomes" -> ""
          [] k = "chatHistory" -> << [sender |-> "ai", text |-> Greeting] >>
          [] k = "status" -> "idle"
          [] OTHER -> Undefined]

\* { ...s, ...obj }: the keys of obj override those of s.
Spread(s, obj) ==
    [k \in StateKeys |-> IF k \in DOMAIN obj THEN obj[k] ELSE s[k]]

\* UPDATE_FIELD spreading the initial state instead of the current one.
ReduceUpdateFieldReset(s, payload) ==
    Spread(initialState, (payload.field :> payload.value))

\* UPDATE_FIELD that also notes the edit in the transcript.
ReduceUpdateFieldNoted(s, payload) ==
    [Spread(s, (payload.field :> payload.value)) EXCEPT
        !["chatHistory"] = Append(@, [sender |-> "ai", text |-> <<"e">>])]

ReduceUpdateField(s, payload) ==
    Spread(s, (payload.field :> payload.value))

ReduceAddMessage(s, payload) ==
    [s EXCEPT !["chatHistory"] = Append(s["chatHistory"], payload)]

\* SET_FORM_DATA as a reset: the payload replaces the state instead of merging.
ReduceSetFormDataReset(s, payload) ==
    [Spread(initialState, payload) EXCEPT !["status"] = "ai_filled"]

ReduceSetFormData(s, payload) ==
    [Spread(s, payload) EXCEPT !["status"] = "ai_filled"]

interactionReducer(s, action) ==
    CASE action.type = "UPDATE_FIELD" -> ReduceUpdateField(s, action.payload)
      [] action.type = "ADD_MESSAGE" -> ReduceAddMessage(s, action.payload)
      [] action.type = "SET_FORM_DATA" -> ReduceSetFormData(s, action.payload)
      [] OTHER -> s

RECURSIVE Dispatch(_, _)
\* The store after the dispatches of one handler run, applied in order from s.
Dispatch(s, actions) ==
    IF actions = << >> THEN s
    ELSE Dispatch(interactionReducer(s, Head(actions)), Tail(actions))

(* ------------------------- String.prototype.trim --------------------- *)

RECURSIVE TrimStart(_)
TrimStart(str) ==
    IF str # << >> /\ Head(str) = " " THEN TrimStart(Tail(str)) ELSE str

RECURSIVE TrimEnd(_)
TrimEnd(str) ==
    IF str # << >> /\ str[Len(str)] = " "
    THEN TrimEnd(SubSeq(str, 1, Len(str) - 1))
    ELSE str

Trim(str) == TrimEnd(TrimStart(str))

\* !input without the trim.
IsBlankInputNoTrim(str) == str = << >>

\* !input.trim(): the empty string is the only falsy string.
IsBlankInput(str) == Trim(str) = << >>

\* The texts the user types into the chat input in this model.
Strings == { << >>, <<" ">>, <<"a">>, <<" ", "a", " ">> }

(* ----------------------- inputs of the model ------------------------- *)

\* The (field, value) pairs the form's widgets hand to handleChange here.
Edits ==
    { <<"hcpName", "Dr. Jones">>,
      <<"topics", "CardioFix">>,
      <<"sentiment", "Negative">> }

NoFormData == [k \in {} |-> ""]

\* The form_data objects the backend answers with in this model.
FormDatas ==
    << NoFormData,
       ("hcpName" :> "Dr. Smith"),
       ("chatHistory" :> << >>),
       ("hcpName" :> "Dr. Smith") @@ ("outcomes" :> "Samples requested"),
       ("hcpName" :> "Dr. Smith") @@ ("sentiment" :> "Angry") @@ ("npiNumber" :> "123") >>

Reply == <<"o", "k">>

\* A parsed response body: { response, form_data? }.
Body(present, form_data) ==
    [response |-> Reply, present |-> present, form_data |-> form_data]

NoBody == Body(FALSE, NoFormData)

\* The bodies response.json() resolves with: form_data absent, or one of FormDatas.
Bodies ==
    <<NoBody>> \o [i \in 1..Len(FormDatas) |-> Body(TRUE, FormDatas[i])]

(* ------------------------------ state -------------------------------- *)

VARIABLES
    state,      \* the store: useReducer(interactionReducer, initialState)
    input,      \* ChatWidget's input text
    isTyping,   \* ChatWidget's isTyping flag
    turns,      \* the handleSend calls that reached fetch, in call order, each
                \* with the request it sent (userMessage, history), its phase
                \* and, while it is pending, the manual edits made meanwhile
    last        \* the latest handler run: what ran, on what, and its dispatches

vars == <<state, input, isTyping, turns, last>>

\* The record of a handler run: the handler, its inputs, the state it ran on
\* and the actions it dispatched.
Ran(op, turn, str, body, actions) ==
    [op |-> op, turn |-> turn, input |-> str, body |-> body,
     pre |-> state, preTyping |-> isTyping, preTurns |-> Len(turns),
     actions |-> actions]

Init ==
    /\ state = initialState
    /\ input = << >>
    /\ isTyping = FALSE
    /\ turns = << >>
    /\ last = [op |-> "mount", turn |-> 0, input |-> << >>, body |-> NoBody,
               pre |-> initialState, preTyping |-> FALSE, preTurns |-> 0,
               actions |-> << >>]

(* ----------------------------- handlers ------------------------------ *)

\* No manual edit yet.
NoEdits == [k \in {} |-> ""]

\* The turns after a manual edit: each pending turn notes the latest value
\* the user gave the field while its request is in flight.
NoteEdit(field, value) ==
    [t \in 1..Len(turns) |->
        IF turns[t].phase = "pending"
        THEN [turns[t] EXCEPT !.edited = (field :> value) @@ @]
        ELSE turns[t]]

\* LogInteractionForm.handleChange(field, value).
handleChange(field, value) ==
    /\ LET actions == << [type |-> "UPDATE_FIELD",
                          payload |-> [field |-> field, value |-> value]] >>
       IN  /\ state' = Dispatch(state, actions)
           /\ last' = Ran("handleChange", 0, << >>, NoBody, actions)
    /\ UNCHANGED <<input, isTyping, turns>>

\* handleChange, followed for the requests in flight: the same update of the
\* store, and every pending turn notes the edit.
handleChangeInFlight(field, value) ==
    /\ LET actions == << [type |-> "UPDATE_FIELD",
                          payload |-> [field |-> field, value |-> value]] >>
       IN  /\ state' = Dispatch(state, actions)
           /\ last' = Ran("handleChange", 0, << >>, NoBody, actions)
    /\ turns' = NoteEdit(field, value)
    /\ UNCHANGED <<input, isTyping>>

\* handleSend sending the transcript that already holds the new user message.
handleSendFreshHistory(str) ==
    IF IsBlankInput(str)
    THEN /\ input' = str
         /\ last' = Ran("handleSend", 0, str, NoBody, << >>)
         /\ UNCHANGED <<state, isTyping, turns>>
    ELSE /\ Len(turns) < MaxTurns
         /\ LET userMessage == str
                actions == << [type |-> "ADD_MESSAGE",
                               payload |-> [sender |-> "user", text |-> userMessage]] >>
            IN  /\ input' = << >>
                /\ state' = Dispatch(state, actions)
                /\ isTyping' = TRUE
                /\ turns' = Append(turns,
                       [userMessage |-> userMessage,
                        history |-> Dispatch(state, actions)["chatHistory"],
                        phase |-> "pending",
                        edited |-> NoEdits])
                /\ last' = Ran("handleSend", Len(turns) + 1, str, NoBody, actions)

\* The user types str into the chat input (onChange: setInput) and presses
\* Enter: handleSend up to the first await.
handleSend(str) ==
    IF IsBlankInput(str)
    THEN /\ input' = str
         /\ last' = Ran("handleSend", 0, str, NoBody, << >>)
         /\ UNCHANGED <<state, isTyping, turns>>
    ELSE /\ Len(turns) < MaxTurns
         /\ LET userMessage == str
                actions == << [type |-> "ADD_MESSAGE",
                               payload |-> [sender |-> "user", text |-> userMessage]] >>
            IN  /\ input' = << >>
                /\ state' = Dispatch(state, actions)
                /\ isTyping' = TRUE
                /\ turns' = Append(turns,
                       [userMessage |-> userMessage,
                        history |-> state["chatHistory"],
                        phase |-> "pending",
                        edited |-> NoEdits])
                /\ last' = Ran("handleSend", Len(turns) + 1, str, NoBody, actions)

\* Routing that hands every non-empty form_data to SET_FORM_DATA.
RouteFormDataAll(present, form_data) ==
    IF present /\ Cardinality(DOMAIN form_data) > 0
    THEN << [type |-> "SET_FORM_DATA", payload |-> form_data] >>
    ELSE << >>

\* The dispatch that applies data.form_data, if any.
RouteFormData(present, form_data) ==
    IF present /\ Cardinality(DOMAIN form_data) > 0
    THEN IF Cardinality(DOMAIN form_data) = 1
         THEN LET key == CHOOSE k \in DOMAIN form_data : TRUE
              IN  << [type |-> "UPDATE_FIELD",
                      payload |-> [field |-> key, value |-> form_data[key]]] >>
         ELSE << [type |-> "SET_FORM_DATA", payload |-> form_data] >>
    ELSE << >>

\* The try block dispatching the form update before the reply.
ResolvedFormFirst(t, data) ==
    /\ t \in 1..Len(turns)
    /\ turns[t].phase = "pending"
    /\ LET actions == RouteFormData(data.present, data.form_data)
                      \o << [type |-> "ADD_MESSAGE",
                             payload |-> [sender |-> "ai", text |-> data.response]] >>
       IN  /\ state' = Dispatch(state, actions)
           /\ last' = Ran("resolved", t, << >>, data, actions)
    /\ isTyping' = FALSE
    /\ turns' = [turns EXCEPT ![t].phase = "settled", ![t].edited = NoEdits]
    /\ UNCHANGED input

\* fetch and response.json() resolved with an object: the rest of the try block.
Resolved(t, data) ==
    /\ t \in 1..Len(turns)
    /\ turns[t].phase = "pending"
    /\ LET actions == << [type |-> "ADD_MESSAGE",
                          payload |-> [sender |-> "ai", text |-> data.response]] >>
                      \o RouteFormData(data.present, data.form_data)
       IN  /\ state' = Dispatch(state, actions)
           /\ last' = Ran("resolved", t, << >>, data, actions)
    /\ isTyping' = FALSE
    /\ turns' = [turns EXCEPT ![t].phase = "settled", ![t].edited = NoEdits]
    /\ UNCHANGED input

\* The catch block without its setIsTyping(false).
FailedKeepsTyping(t) ==
    /\ t \in 1..Len(turns)
    /\ turns[t].phase = "pending"
    /\ LET actions == << [type |-> "ADD_MESSAGE",
                          payload |-> [sender |-> "ai", text |-> ConnectionError]] >>
       IN  /\ state' = Dispatch(state, actions)
           /\ last' = Ran("failed", t, << >>, NoBody, actions)
    /\ turns' = [turns EXCEPT ![t].phase = "settled", ![t].edited = NoEdits]
    /\ UNCHANGED <<input, isTyping>>

\* The catch block: fetch rejected, response.json() rejected, or the body
\* parsed to null so that reading data.response threw.
Failed(t) ==
    /\ t \in 1..Len(turns)
    /\ turns[t].phase = "pending"
    /\ LET actions == << [type |-> "ADD_MESSAGE",
                          payload |-> [sender |-> "ai", text |-> ConnectionError]] >>
       IN  /\ state' = Dispatch(state, actions)
           /\ last' = Ran("failed", t, << >>, NoBody, actions)
    /\ isTyping' = FALSE
    /\ turns' = [turns EXCEPT ![t].phase = "settled", ![t].edited = NoEdits]
    /\ UNCHANGED input

Next ==
    \/ \E str \in Strings : handleSend(str)
    \/ \E e \in Edits : handleChange(e[1], e[2])
    \/ \E t \in 1..MaxTurns : \E i \in 1..Len(Bodies) : Resolved(t, Bodies[i])
    \/ \E t \in 1..MaxTurns : Failed(t)

Spec == Init /\ [][Next]_vars

\* The messages sent where the manual edits are followed.
EditStrings == { <<"a">> }

\* The same program with the manual edits noted in the turns in flight.
EditNext ==
    \/ \E str \in EditStrings : handleSend(str)
    \/ \E e \in Edits : handleChangeInFlight(e[1], e[2])
    \/ \E t \in 1..MaxTurns : \E i \in 1..Len(Bodies) : Resolved(t, Bodies[i])
    \/ \E t \in 1..MaxTurns : Failed(t)

EditSpec == Init /\ [][EditNext]_vars

(* ------------------------------ claims ------------------------------- *)

\* Every key of the store but the transcript.
FormKeys == StateKeys \ {"chatHistory"}

InteractionTypes == {"Meeting", "Call"}

KeyCount(body) == IF body.present THEN Cardinality(DOMAIN body.form_data) ELSE 0

\* A payload that names recognized fields only, with enum values in range.
ValidPayload(form_data) ==
    /\ DOMAIN form_data \subseteq RecordFields
    /\ "sentiment" \in DOMAIN form_data => form_data["sentiment"] \in Sentiments
    /\ "interactionType" \in DOMAIN form_data =>
           form_data["interactionType"] \in InteractionTypes

ReplyMessage(body) == [sender |-> "ai", text |-> body.response]

ErrorMessage == [sender |-> "ai", text |-> ConnectionError]

UserMessage(t) == [sender |-> "user", text |-> turns[t].userMessage]

AllSpaces(str) == \A i \in 1..Len(str) : str[i] = " "

IsPrefix(a, b) == Len(a) <= Len(b) /\ SubSeq(b, 1, Len(a)) = a

Pending == {t \in 1..Len(turns) : turns[t].phase = "pending"}

\* C1: a successful response's form_data is routed by its key count alone:
\* absent or 0 keys dispatches nothing and leaves the record as it was, 1 key
\* dispatches UPDATE_FIELD on that key (the field is set, status is not
\* touched), 2 or more keys dispatch SET_FORM_DATA with the whole payload
\* (status becomes ai_filled), whatever the keys are.
C1_RoutedByKeyCount ==
    last.op = "resolved" =>
        LET n == KeyCount(last.body)
            fd == last.body.form_data
        IN  /\ n = 0 =>
                /\ Len(last.actions) = 1
                /\ \A k \in FormKeys : state[k] = last.pre[k]
            /\ n = 1 =>
                /\ Len(last.actions) = 2
                /\ last.actions[2].type = "UPDATE_FIELD"
                /\ \A k \in DOMAIN fd :
                       /\ last.actions[2].payload = [field |-> k, value |-> fd[k]]
                       /\ state[k] = fd[k]
                       /\ k # "status" => state["status"] = last.pre["status"]
            /\ n >= 2 =>
                /\ Len(last.actions) = 2
                /\ last.actions[2].type = "SET_FORM_DATA"
                /\ last.actions[2].payload = fd
                /\ state["status"] = "ai_filled"

C1_Witness ==
    /\ last.op = "resolved"
    /\ KeyCount(last.body) = 1
    /\ Len(last.actions) = 2
    /\ last.actions[2].type = "UPDATE_FIELD"

\* C2: a full merge of a valid multi-key payload P sets exactly the record
\* fields named by P to P's values; every other record field keeps its prior
\* value and the transcript is the prior one followed by the turn's reply.
C2_FullMergeFrame ==
    (last.op = "resolved" /\ KeyCount(last.body) >= 2
        /\ ValidPayload(last.body.form_data)) =>
        LET P == last.body.form_data
        IN  /\ \A f \in RecordFields :
                   state[f] = IF f \in DOMAIN P THEN P[f] ELSE last.pre[f]
            /\ \A k \in UnknownKeys : state[k] = last.pre[k]
            /\ state["chatHistory"] =
                   Append(last.pre["chatHistory"], ReplyMessage(last.body))

\* A merge over a record that was edited before: the edit survives.
C2_Witness ==
    /\ last.op = "resolved"
    /\ KeyCount(last.body) >= 2
    /\ ValidPayload(last.body.form_data)
    /\ last.pre["sentiment"] = "Negative"
    /\ state["sentiment"] = "Negative"
    /\ state["hcpName"] = "Dr. Smith"
    /\ last.pre["hcpName"] = ""

\* C3: UPDATE_FIELD of a valid single-key payload (f, v), and of a manual edit,
\* sets f to v and leaves every other key of the store as it was; the
\* transcript only gains the reply that the turn appended before the patch.
C3_PatchFrame ==
    /\ (last.op = "resolved" /\ KeyCount(last.body) = 1
           /\ ValidPayload(last.body.form_data)) =>
           \A f \in DOMAIN last.body.form_data :
               /\ state[f] = last.body.form_data[f]
               /\ \A k \in FormKeys \ {f} : state[k] = last.pre[k]
               /\ state["chatHistory"] =
                      Append(last.pre["chatHistory"], ReplyMessage(last.body))
    /\ last.op = "handleChange" =>
           LET f == last.actions[1].payload.field
           IN  /\ state[f] = last.actions[1].payload.value
               /\ \A k \in FormKeys \ {f} : state[k] = last.pre[k]
               /\ state["chatHistory"] = last.pre["chatHistory"]

C3_Witness ==
    /\ last.op = "resolved"
    /\ KeyCount(last.body) = 1
    /\ ValidPayload(last.body.form_data)
    /\ last.pre["hcpName"] = ""
    /\ state["hcpName"] = "Dr. Smith"
    /\ state["topics"] = "CardioFix"

\* C4: a successful response whose form_data has a key that is not a record
\* field leaves the whole record unchanged (no key is stored), and its reply is
\* appended to the transcript.
C4_UnknownKeyRejected ==
    (last.op = "resolved" /\ last.body.present
        /\ \E k \in DOMAIN last.body.form_data : k \notin RecordFields) =>
        /\ \A k \in FormKeys : state[k] = last.pre[k]
        /\ state["chatHistory"] =
               Append(last.pre["chatHistory"], ReplyMessage(last.body))

\* C5: the record's sentiment is always one of Positive, Neutral, Negative.
C5_SentimentInEnum == state["sentiment"] \in Sentiments

\* C6: the transcript is append-only: every step leaves the transcript it
\* found as a prefix of the transcript it produces.
C6_TranscriptAppendOnly ==
    [][IsPrefix(state["chatHistory"], state'["chatHistory"])]_vars

\* C7: a send whose input is empty or only whitespace dispatches nothing,
\* leaves the store (record and transcript) and isTyping as they were and
\* issues no request.
C7_BlankSendNoOp ==
    (last.op = "handleSend" /\ AllSpaces(last.input)) =>
        /\ last.actions = << >>
        /\ state = last.pre
        /\ isTyping = last.preTyping
        /\ Len(turns) = last.preTurns

\* A whitespace-only, non-empty input sent while a request is pending.
C7_Witness ==
    /\ last.op = "handleSend"
    /\ Len(last.input) > 0
    /\ AllSpaces(last.input)
    /\ Pending # {}
    /\ isTyping

\* C8: at most one assistant request is outstanding: no send starts a turn
\* while an earlier turn's request has not settled.
C8_SingleFlight == Cardinality(Pending) <= 1

\* C9: when a turn's request succeeds, the transcript is the transcript from
\* just before the turn started followed by exactly the turn's user message
\* and then its reply.
C9_SuccessAppendsTwo ==
    last.op = "resolved" =>
        state["chatHistory"] =
            turns[last.turn].history
                \o << UserMessage(last.turn), ReplyMessage(last.body) >>

\* C10: when a turn's request fails, the transcript is the transcript from
\* just before the turn started followed by exactly the turn's user message
\* and then the fixed error message, and the failure leaves every record
\* field as it was.
C10_FailureAppendsTwo ==
    last.op = "failed" =>
        /\ state["chatHistory"] =
               turns[last.turn].history
                   \o << UserMessage(last.turn), ErrorMessage >>
        /\ \A k \in FormKeys : state[k] = last.pre[k]

\* C11: isTyping is cleared on every outcome: the handler run that settles a
\* turn's request, by success or by failure, ends with isTyping false and the
\* turn settled, so a request that settles always returns the widget to idle.
C11_TypingCleared ==
    last.op \in {"resolved", "failed"} =>
        /\ ~isTyping
        /\ turns[last.turn].phase = "settled"

\* A failed turn that ended with the flag cleared.
C11_Witness ==
    /\ last.op = "failed"
    /\ last.preTyping
    /\ ~isTyping

\* C12: in every state in which a request is in flight, the user message that
\* triggered it is in the transcript.
C12_UserMessageVisible ==
    \A t \in Pending :
        \E i \in 1..Len(state["chatHistory"]) :
            state["chatHistory"][i] = UserMessage(t)

\* C13 as stated: the transcript sent with a turn's request is the store's
\* transcript when the request is issued, ending with the turn's user message.
C13_HistoryIncludesMessage ==
    (last.op = "handleSend" /\ last.turn > 0) =>
        LET history == turns[last.turn].history
        IN  /\ history = state["chatHistory"]
            /\ history # << >>
            /\ history[Len(history)] = UserMessage(last.turn)

\* C13 amended: the history sent with a turn's request is the store's
\* transcript from just before the turn's user message was appended, without
\* that message; the message travels beside it as the request's message, and
\* the store's transcript is that history followed by the message.
C13_HistoryBeforeMessage ==
    (last.op = "handleSend" /\ last.turn > 0) =>
        LET history == turns[last.turn].history
        IN  /\ history = last.pre["chatHistory"]
            /\ turns[last.turn].userMessage = last.input
            /\ state["chatHistory"] =
                   Append(history, [sender |-> "user", text |-> last.input])

\* A second turn's request: its history holds the first turn's messages.
C13_Witness ==
    /\ last.op = "handleSend"
    /\ last.turn = 2
    /\ Len(turns[2].history) >= 3
    /\ Len(state["chatHistory"]) = Len(turns[2].history) + 1

\* C14: the user message a send appends is the trimmed input.
C14_AppendsTrimmed ==
    (last.op = "handleSend" /\ last.turn > 0) =>
        state["chatHistory"][Len(state["chatHistory"])] =
            [sender |-> "user", text |-> Trim(last.input)]

\* The single-field patches with string values of this model.
StringPatches ==
    {[field |-> e[1], value |-> e[2]] : e \in Edits}
        \cup {[field |-> "hcpName", value |-> "Dr. Smith"],
              [field |-> "npiNumber", value |-> "123"]}

UpdateField(s, patch) ==
    interactionReducer(s, [type |-> "UPDATE_FIELD", payload |-> patch])

PatchIdempotentOn(s, patch) ==
    UpdateField(UpdateField(s, patch), patch) = UpdateField(s, patch)

\* C15: applying a single-field patch twice in a row gives the same whole
\* store (record, transcript, status) as applying it once; and a manual edit
\* repeated on a store that already holds its value changes nothing.
C15_PatchIdempotent ==
    /\ \A patch \in StringPatches : PatchIdempotentOn(state, patch)
    /\ PatchIdempotentOn(state, [field |-> "chatHistory", value |-> << >>])
    /\ (last.op = "handleChange"
           /\ last.pre[last.actions[1].payload.field]
                  = last.actions[1].payload.value) =>
           state = last.pre

\* The same edit made a second time, after a turn has run.
C15_Witness ==
    /\ last.op = "handleChange"
    /\ last.actions[1].payload = [field |-> "hcpName", value |-> "Dr. Jones"]
    /\ last.pre["hcpName"] = "Dr. Jones"
    /\ state = last.pre
    /\ Len(state["chatHistory"]) >= 3

\* C16: status records the kind of the latest applied extraction: idle until
\* one is applied, patch right after a single-key patch, ai_filled right after
\* a multi-key merge.
C16_StatusTracksFill ==
    /\ (\A t \in 1..Len(turns) : turns[t].phase = "pending") =>
           state["status"] = "idle"
    /\ (last.op = "resolved" /\ KeyCount(last.body) = 1) =>
           state["status"] = "patch"
    /\ (last.op = "resolved" /\ KeyCount(last.body) >= 2) =>
           state["status"] = "ai_filled"

IsFormAction(action) == action.type \in {"UPDATE_FIELD", "SET_FORM_DATA"}

C18_TypingIffPending == isTyping <=> (Pending # {})

GreetingMessage == [sender |-> "ai", text |-> Greeting]

\* The number of transcript entries of a sender, the greeting left out.
Count(sender) ==
    Cardinality({i \in 1..Len(state["chatHistory"]) :
                    /\ state["chatHistory"][i].sender = sender
                    /\ state["chatHistory"][i] # GreetingMessage})

\* C19: the transcript never holds more assistant messages, the greeting
\* aside, than user messages, and holds as many when no request is pending.
C19_OneAnswerPerTurn ==
    /\ Count("ai") <= Count("user")
    /\ Pending = {} => Count("ai") = Count("user")

Settled == {t \in 1..Len(turns) : turns[t].phase = "settled"}

\* The transcript position of a turn's user message.
UserAt(t) == Len(turns[t].history) + 1

\* C20: the assistant message of a completing turn is appended directly
\* after the turn's user message, and no turn whose user message came later
\* has had its assistant message appended before it.
C20_RepliesPaired ==
    last.op \in {"resolved", "failed"} =>
        /\ Len(last.pre["chatHistory"]) = UserAt(last.turn)
        /\ \A b \in Settled : UserAt(b) <= UserAt(last.turn)

\* C21: a manual edit made while a turn's request is in flight survives the
\* turn's completion: when the turn completes, every field the user set in
\* the meantime still has the value the user gave it last, unless the turn
\* succeeded with a payload that names the field.
C21_EditSurvivesTurn ==
    [][\A t \in Pending :
           turns'[t].phase = "settled" =>
               \A f \in DOMAIN turns[t].edited :
                   (last'.op = "failed" \/ f \notin DOMAIN last'.body.form_data)
                       => state'[f] = turns[t].edited[f]]_vars

====
